---- MODULE Spec2Model ----
(***************************************************************************)
(* Model of janis_templates: the Pawsey and Peter Mac cluster templates,   *)
(* their "disconnected" subclasses, the sbatch argument vector built by    *)
(* submit_detatched_resume and the status email renderers.                 *)
(*                                                                         *)
(* One template instance is modelled.  Its attribute store is `attrs`; a   *)
(* behaviour runs one of the four constructors on a fresh instance, or     *)
(* starts from an instance of a disconnected template whose attributes are *)
(* given, and then calls methods on it; or it is one call of the static    *)
(* renderer prepare_run_status_table on given arguments.  `last` holds the *)
(* arguments and the result of the latest call, `base` what reached the    *)
(* external base class SlurmSingularityTemplate, `asg` the number of       *)
(* assignments made to self.submission_queue and self.max_workflow_time.   *)
(* Python values are tagged records, strings are TLA+ strings, keyword     *)
(* arguments are functions from names to values.                           *)
(***************************************************************************)
EXTENDS Integers, Sequences, FiniteSets, TLC

VARIABLES cls, phase, attrs, asg, base, last

vars == <<cls, phase, attrs, asg, base, last>>

-----------------------------------------------------------------------------
(* Bounds of the model.                                                    *)

MaxQueues == 2
MaxJobs == 2
MaxInputs == 2

-----------------------------------------------------------------------------
(* Python values.                                                          *)

PyNone == [kind |-> "none", s |-> "", n |-> 0, items |-> <<>>]
PyStr(x) == [kind |-> "str", s |-> x, n |-> 0, items |-> <<>>]
PyInt(i) == [kind |-> "int", s |-> "", n |-> i, items |-> <<>>]
PyBool(b) == [kind |-> "bool", s |-> "", n |-> IF b THEN 1 ELSE 0, items |-> <<>>]
PyList(xs) == [kind |-> "list", s |-> "", n |-> 0, items |-> xs]
\* an attribute that no assignment has created yet
Unset == [kind |-> "unset", s |-> "", n |-> 0, items |-> <<>>]

\* truth value of `v` in `if v`, `v or d`, `a and b`
Truthy(v) ==
    CASE v.kind = "none" -> FALSE
      [] v.kind = "str" -> v.s # ""
      [] v.kind = "int" -> v.n # 0
      [] v.kind = "bool" -> v.n # 0
      [] v.kind = "list" -> v.items # <<>>
      [] OTHER -> FALSE

\* isinstance(v, list)
IsList(v) == v.kind = "list"

\* sep.join(xs) for a list of strings
RECURSIVE Join(_, _)
Join(sep, xs) ==
    IF xs = <<>> THEN ""
    ELSE IF Len(xs) = 1 THEN xs[1]
    ELSE xs[1] \o sep \o Join(sep, Tail(xs))

\* str(v)
Str(v) ==
    CASE v.kind = "none" -> "None"
      [] v.kind = "str" -> v.s
      [] v.kind = "int" -> ToString(v.n)
      [] v.kind = "bool" -> IF v.n # 0 THEN "True" ELSE "False"
      [] v.kind = "list" -> "[" \o Join(", ", v.items) \o "]"
      [] OTHER -> "?"

\* a or b
Or(a, b) == IF Truthy(a) THEN a ELSE b

\* os.path.join(logsdir, name) for a directory given without a trailing slash
PathJoin(dir, name) == IF dir = "" THEN name ELSE dir \o "/" \o name

\* all sequences over S of length at most n
RECURSIVE SeqsUpTo(_, _)
SeqsUpTo(S, n) ==
    IF n = 0 THEN {<<>>}
    ELSE SeqsUpTo(S, n - 1)
           \cup {Append(q, x) : q \in {r \in SeqsUpTo(S, n - 1) : Len(r) = n - 1}, x \in S}

\* the orders in which a set of strings can be iterated
Orders(S) == {q \in SeqsUpTo(S, Cardinality(S)) :
                 Len(q) = Cardinality(S) /\ {q[i] : i \in DOMAIN q} = S}

-----------------------------------------------------------------------------
(* Keyword calls: a call binds when every keyword names a parameter and    *)
(* every parameter without a default is supplied; otherwise TypeError.     *)

Binds(sig, kw) ==
    /\ DOMAIN kw \subseteq sig.params
    /\ sig.required \subseteq DOMAIN kw

Arg(kw, name, default) == IF name \in DOMAIN kw THEN kw[name] ELSE default

NoKw == [x \in {} |-> PyNone]

NoError == [type |-> "none", msg |-> <<>>]
TypeError == [type |-> "TypeError", msg |-> <<>>]

\* the running state of a constructor: the attribute store, the number of
\* assignments to the two subclass-set fields, what reached the base class
NoAttrs ==
    [queues |-> Unset, send_job_emails |-> Unset, submission_queue |-> Unset,
     max_workflow_time |-> Unset, janis_memory_mb |-> Unset, email_format |-> Unset]

NoAsg == [submission_queue |-> 0, max_workflow_time |-> 0]

NoBase == [inits |-> 0, kw |-> NoKw]

Fresh == [attrs |-> NoAttrs, asg |-> NoAsg, base |-> NoBase, err |-> NoError]

Raise(st, e) == [st EXCEPT !.err = e]

-----------------------------------------------------------------------------
(* SlurmSingularityTemplate (base class, external): its constructor keeps  *)
(* the keyword arguments it is given; the instance attributes the          *)
(* subclasses read back are `queues` and `send_job_emails`.                *)

SlurmSingularityTemplate_init(st, kw) ==
    [st EXCEPT
        !.base = [inits |-> st.base.inits + 1, kw |-> kw],
        !.attrs.queues = Arg(kw, "queues", PyNone),
        !.attrs.send_job_emails =
            Arg(kw, "send_job_emails", Arg(kw, "sendSlurmEmails", PyBool(FALSE)))]

-----------------------------------------------------------------------------
(* PawseyTemplate                                                          *)

SUBMISSION_LENGTH == "4-00:00:00"

PawseyTemplate_sig ==
    [params |-> {"containerDir", "executionDir", "queues", "singularityVersion",
                 "catchSlurmErrors", "sendSlurmEmails",
                 "singularityBuildInstructions", "max_cores", "max_ram"},
     required |-> {"containerDir"}]

\* singload = "module load singularity" (+ "/" + str(version) if version)
Singload(version) ==
    IF Truthy(version) THEN "module load singularity" \o "/" \o Str(version)
    ELSE "module load singularity"

PawseyTemplate_init(st, kw) ==
    IF ~Binds(PawseyTemplate_sig, kw) THEN Raise(st, TypeError)
    ELSE
      SlurmSingularityTemplate_init(st,
        ("executionDir" :> Arg(kw, "executionDir", PyNone))
        @@ ("queues" :> Arg(kw, "queues", PyStr("workq")))
        @@ ("containerDir" :> kw["containerDir"])
        @@ ("catchSlurmErrors" :> Arg(kw, "catchSlurmErrors", PyBool(TRUE)))
        @@ ("sendSlurmEmails" :> Arg(kw, "sendSlurmEmails", PyBool(TRUE)))
        @@ ("buildInstructions" :>
              Arg(kw, "singularityBuildInstructions",
                  PyStr("singularity pull $image docker://${docker}")))
        @@ ("singularityLoadInstructions" :>
              PyStr(Singload(Arg(kw, "singularityVersion", PyStr("3.3.0")))))
        @@ ("max_cores" :> Arg(kw, "max_cores", PyInt(28)))
        @@ ("max_ram" :> Arg(kw, "max_ram", PyInt(128))))

\* PawseyDisconnectedTemplate.__init__: stores the submission queue, then
\* calls PawseyTemplate.__init__(executionDir=executionDir)
PawseyDisconnectedTemplate_init(st, kw) ==
    LET st1 == [st EXCEPT
                  !.attrs.submission_queue = Arg(kw, "submissionQueue", PyStr("longq")),
                  !.asg.submission_queue = @ + 1]
    IN PawseyTemplate_init(st1, "executionDir" :> kw["executionDir"])

-----------------------------------------------------------------------------
(* PeterMacTemplate                                                        *)

\* mutant: the constructor also takes arbitrary keywords (**kwargs)
PeterMacTemplate_sig_any_keyword ==
    [params |-> {"intermediate_execution_dir", "container_dir", "queues",
                 "singularity_version", "send_job_emails", "catch_slurm_errors",
                 "singularity_build_instructions", "max_cores", "max_ram",
                 "max_workflow_time", "janis_memory_mb", "email_format",
                 "executionDir", "containerDir", "singularityVersion",
                 "catchSlurmErrors", "sendSlurmEmails",
                 "singularityBuildInstructions",
                 "wid", "command", "capture_output", "config"},
     required |-> {}]

PeterMacTemplate_sig ==
    [params |-> {"intermediate_execution_dir", "container_dir", "queues",
                 "singularity_version", "send_job_emails", "catch_slurm_errors",
                 "singularity_build_instructions", "max_cores", "max_ram",
                 "max_workflow_time", "janis_memory_mb", "email_format"},
     required |-> {}]

expected_email_format == {PyNone, PyStr("molpath")}

\* joined_queued = ",".join(queues) if isinstance(queues, list) else str(queues)
JoinedQueued(queues) ==
    IF IsList(queues) THEN Join(",", queues.items) ELSE Str(queues)

\* the default singularity_build_instructions
DefaultBuildInstructions(joined_queued, container_dir) ==
    "sbatch -p " \o joined_queued
      \o " --wait     --wrap 'unset SINGULARITY_TMPDIR && docker_subbed=$(sed -e 's/[^A-Za-z0-9._-]/_/g' <<< ${docker})     && image="
      \o Str(container_dir)
      \o "/$docker_subbed.sif && singularity pull $image docker://${docker}'"

\* the message of the exception raised for a rejected email_format; `order`
\* is the order in which the set expected_email_format is iterated
InvalidChoice(email_format, order) ==
    [type |-> "Exception",
     msg |-> <<"Argument email_format: invalid choice: '", Str(email_format),
               "' (choose from ",
               Join(", ", [i \in DOMAIN order |-> "'" \o Str(order[i]) \o "'"]),
               ")">>]

\* mutant: a third format slips through the check
EmailFormatRejected_html_allowed(email_format) ==
    email_format \notin (expected_email_format \cup {PyStr("html")})

\* email_format not in PeterMacTemplate.expected_email_format
EmailFormatRejected(email_format) == email_format \notin expected_email_format

PeterMacTemplate_init(st, kw, order) ==
    IF ~Binds(PeterMacTemplate_sig, kw) THEN Raise(st, TypeError)
    ELSE
      LET queues == Arg(kw, "queues", PyStr("prod_med,prod"))
          container_dir ==
              Arg(kw, "container_dir",
                  PyStr("/config/binaries/singularity/containers_devel/janis/"))
          joined_queued == JoinedQueued(queues)
          given == Arg(kw, "singularity_build_instructions", PyNone)
          build == IF ~Truthy(given)
                   THEN PyStr(DefaultBuildInstructions(joined_queued, container_dir))
                   ELSE given
          email_format == Arg(kw, "email_format", PyNone)
          st1 == [st EXCEPT
                    !.attrs.max_workflow_time =
                        Arg(kw, "max_workflow_time", PyInt(20100)),
                    !.asg.max_workflow_time = @ + 1,
                    !.attrs.janis_memory_mb = Arg(kw, "janis_memory_mb", PyNone)]
          st2 == [st1 EXCEPT !.attrs.email_format = email_format]
      IN IF EmailFormatRejected(email_format)
         THEN Raise(st1, InvalidChoice(email_format, order))
         ELSE
           SlurmSingularityTemplate_init(st2,
             ("mail_program" :> PyStr("sendmail -t"))
             @@ ("intermediate_execution_dir" :>
                   Arg(kw, "intermediate_execution_dir", PyNone))
             @@ ("container_dir" :> container_dir)
             @@ ("queues" :> PyStr(joined_queued))
             @@ ("send_job_emails" :> Arg(kw, "send_job_emails", PyBool(FALSE)))
             @@ ("catch_slurm_errors" :> Arg(kw, "catch_slurm_errors", PyBool(TRUE)))
             @@ ("build_instructions" :> build)
             @@ ("singularity_load_instructions" :>
                   PyStr(Singload(Arg(kw, "singularity_version", PyStr("3.4.0")))))
             @@ ("max_cores" :> Arg(kw, "max_cores", PyInt(40)))
             @@ ("max_ram" :> Arg(kw, "max_ram", PyInt(256)))
             @@ ("can_run_in_foreground" :> PyBool(FALSE))
             @@ ("run_in_background" :> PyBool(TRUE)))

\* the build instructions PeterMacDisconnectedTemplate.__init__ passes on
DisconnectedBuildInstructions(containerDir) ==
    "unset SINGULARITY_TMPDIR && docker_subbed=$(sed -e 's/[^A-Za-z0-9._-]/_/g' <<< ${docker}) && image="
      \o Str(containerDir)
      \o "/$docker_subbed.sif && singularity pull $image docker://${docker}"

\* PeterMacDisconnectedTemplate.__init__: calls PeterMacTemplate.__init__ with
\* its own keyword names, then stores max_workflow_time
PeterMacDisconnectedTemplate_init(st, kw, order) ==
    LET containerDir ==
            Arg(kw, "containerDir",
                PyStr("/config/binaries/singularity/containers_devel/janis/"))
        r == PeterMacTemplate_init(st,
               ("executionDir" :> Arg(kw, "executionDir", PyNone))
               @@ ("queues" :> Arg(kw, "queues", PyStr("prod_med,prod")))
               @@ ("containerDir" :> containerDir)
               @@ ("singularityVersion" :> Arg(kw, "singularityVersion", PyStr("3.4.0")))
               @@ ("catchSlurmErrors" :> Arg(kw, "catchSlurmErrors", PyBool(TRUE)))
               @@ ("sendSlurmEmails" :> Arg(kw, "sendSlurmEmails", PyBool(FALSE)))
               @@ ("singularityBuildInstructions" :>
                     PyStr(DisconnectedBuildInstructions(containerDir))),
               order)
    IN IF r.err # NoError THEN r
       ELSE [r EXCEPT
               !.attrs.max_workflow_time = Arg(kw, "max_workflow_time", PyInt(14400)),
               !.asg.max_workflow_time = @ + 1]

-----------------------------------------------------------------------------
(* Inputs of the constructors.                                             *)

QueueNames == <<"prod_med", "prod", "short", "long">>

\* queues: a string, or a list of zero to MaxQueues queue names
Queues == {PyStr("workq")} \cup {PyList(SubSeq(QueueNames, 1, n)) : n \in 0..MaxQueues}

Versions == {PyNone, PyStr("3.4.0")}

SubmissionQueues == {PyNone, PyStr(""), PyStr("longq")}

WorkflowTimes == {PyNone, PyInt(0), PyInt(20100)}

MemoryOverrides == {PyNone, PyInt(0), PyInt(2048)}

EmailFormats == {PyNone, PyStr("molpath"), PyStr("html"), PyStr("")}

EmailFormatOrders == Orders(expected_email_format)

Flags == {PyBool(FALSE), PyBool(TRUE)}

\* the end of a constructor call: the instance is usable when it returned
Constructed(c, kw, r) ==
    /\ cls' = c
    /\ phase' = IF r.err = NoError THEN "ready" ELSE "failed"
    /\ attrs' = r.attrs
    /\ asg' = r.asg
    /\ base' = r.base
    /\ last' = [op |-> "init", kw |-> kw, err |-> r.err]

New_PawseyTemplate ==
    /\ phase = "absent"
    /\ \E queues \in Queues, version \in Versions, send \in Flags :
         LET kw == ("containerDir" :> PyStr("/containers"))
                   @@ ("queues" :> queues)
                   @@ ("singularityVersion" :> version)
                   @@ ("sendSlurmEmails" :> send)
         IN Constructed("PawseyTemplate", kw, PawseyTemplate_init(Fresh, kw))

New_PawseyDisconnectedTemplate ==
    /\ phase = "absent"
    /\ \E queues \in Queues, sq \in SubmissionQueues, version \in Versions :
         LET kw == ("executionDir" :> PyStr("/exec"))
                   @@ ("containerDir" :> PyStr("/containers"))
                   @@ ("queues" :> queues)
                   @@ ("submissionQueue" :> sq)
                   @@ ("singularityVersion" :> version)
         IN Constructed("PawseyDisconnectedTemplate", kw,
                        PawseyDisconnectedTemplate_init(Fresh, kw))

New_PeterMacTemplate ==
    /\ phase = "absent"
    /\ \E queues \in Queues, version \in Versions, send \in Flags,
          mwt \in WorkflowTimes, mem \in MemoryOverrides, ef \in EmailFormats,
          order \in EmailFormatOrders :
         LET kw == ("queues" :> queues)
                   @@ ("singularity_version" :> version)
                   @@ ("send_job_emails" :> send)
                   @@ ("max_workflow_time" :> mwt)
                   @@ ("janis_memory_mb" :> mem)
                   @@ ("email_format" :> ef)
         IN Constructed("PeterMacTemplate", kw,
                        PeterMacTemplate_init(Fresh, kw, order))

New_PeterMacDisconnectedTemplate ==
    /\ phase = "absent"
    /\ \E queues \in Queues, version \in Versions, send \in Flags,
          mwt \in WorkflowTimes, order \in EmailFormatOrders :
         LET kw == ("queues" :> queues)
                   @@ ("singularityVersion" :> version)
                   @@ ("sendSlurmEmails" :> send)
                   @@ ("max_workflow_time" :> mwt)
         IN Constructed("PeterMacDisconnectedTemplate", kw,
                        PeterMacDisconnectedTemplate_init(Fresh, kw, order))

-----------------------------------------------------------------------------
(* submit_detatched_resume                                                 *)

\* (wid, command, logsdir) of a call
CallArgs ==
    {[wid |-> "abc123", command |-> PyList(<<"run.sh", "--flag">>), logsdir |-> "/logs"],
     [wid |-> "abc123", command |-> PyStr("run.sh --flag"), logsdir |-> "/data/run1/logs"],
     [wid |-> "w2", command |-> PyList(<<"janis", "resume", "w2">>), logsdir |-> "/logs"],
     [wid |-> "w2", command |-> PyStr("janis"), logsdir |-> "/data/run1/logs"]}

\* config: None, or an object whose notifications are None or hold an email
Configs ==
    {[isNone |-> TRUE, notifications |-> [isNone |-> TRUE, email |-> PyNone]],
     [isNone |-> FALSE, notifications |-> [isNone |-> TRUE, email |-> PyNone]]}
    \cup {[isNone |-> FALSE, notifications |-> [isNone |-> FALSE, email |-> e]] :
             e \in {PyNone, PyStr(""), PyStr("me@petermac.org")}}

\* what the base class's submit_detatched_resume does with the vector
BaseOutcomes == {NoError, [type |-> "CalledProcessError", msg |-> <<>>]}

\* jq = ", ".join(q) if isinstance(q, list) else q
Jq(q) == IF IsList(q) THEN PyStr(Join(", ", q.items)) ELSE q

\* jc = " ".join(command) if isinstance(command, list) else command
Jc(command) == IF IsList(command) THEN PyStr(Join(" ", command.items)) ELSE command

\* the queue placed after -p by PawseyDisconnectedTemplate
PawseyQueue(self) == Or(self.submission_queue, Jq(self.queues))

\* the queue placed after -p by the Peter Mac templates
PeterMacQueue == Jq(PyStr("janis"))

\* config and config.notifications and config.notifications.email
HasEmail(config) ==
    /\ ~config.isNone
    /\ ~config.notifications.isNone
    /\ Truthy(config.notifications.email)

\* the mail block of PeterMacTemplate.submit_detatched_resume
MailBlock(self, config) ==
    IF Truthy(self.send_job_emails) /\ HasEmail(config)
    THEN <<"--mail-user", Str(config.notifications.email), "--mail-type", "END">>
    ELSE <<>>

\* the memory block of PeterMacTemplate.submit_detatched_resume
MemBlock(self) ==
    IF Truthy(self.janis_memory_mb)
    THEN <<"--mem", Str(self.janis_memory_mb)>>
    ELSE <<>>

\* the value after --time in PeterMacTemplate
PeterMacTime(self) == Str(Or(self.max_workflow_time, PyInt(14400)))

\* the value after --time in PeterMacDisconnectedTemplate
PeterMacDisconnectedTime(self) == Str(Or(self.max_workflow_time, PyInt(1440)))

PawseyDisconnectedTemplate_newcommand(self, wid, command, logsdir) ==
    <<"sbatch", "-p", Str(PawseyQueue(self)), "-J", "janis-" \o wid,
      "--time", SUBMISSION_LENGTH,
      "-o", PathJoin(logsdir, "slurm.stdout"),
      "-e", PathJoin(logsdir, "slurm.stderr"),
      "--wrap", Str(Jc(command))>>

\* mutant: the memory block appended after --wrap
PeterMacTemplate_newcommand_mem_after_wrap(self, wid, command, logsdir, config) ==
    <<"sbatch", "-p", Str(PeterMacQueue), "-J", "janis-" \o wid,
      "--time", PeterMacTime(self),
      "-o", PathJoin(logsdir, "slurm.stdout"),
      "-e", PathJoin(logsdir, "slurm.stderr")>>
    \o MailBlock(self, config)
    \o <<"--wrap", Str(Jc(command))>>
    \o MemBlock(self)

PeterMacTemplate_newcommand(self, wid, command, logsdir, config) ==
    <<"sbatch", "-p", Str(PeterMacQueue), "-J", "janis-" \o wid,
      "--time", PeterMacTime(self),
      "-o", PathJoin(logsdir, "slurm.stdout"),
      "-e", PathJoin(logsdir, "slurm.stderr")>>
    \o MailBlock(self, config)
    \o MemBlock(self)
    \o <<"--wrap", Str(Jc(command))>>

PeterMacDisconnectedTemplate_newcommand(self, wid, command, logsdir) ==
    <<"sbatch", "-p", Str(PeterMacQueue), "-J", "janis-" \o wid,
      "--time", PeterMacDisconnectedTime(self),
      "-o", PathJoin(logsdir, "slurm.stdout"),
      "-e", PathJoin(logsdir, "slurm.stderr"),
      "--wrap", Str(Jc(command))>>

\* the instance as a method sees it
Self == [attrs |-> attrs, asg |-> asg, base |-> base, err |-> NoError]

\* the keywords of the call the disconnected templates make on super():
\* super().__init__(wid=wid, command=newcommand, capture_output=True, **kwargs)
ResumeKw(wid, newcommand, config) ==
    ("wid" :> PyStr(wid))
    @@ ("command" :> PyList(newcommand))
    @@ ("capture_output" :> PyBool(TRUE))
    @@ ("config" :> IF config.isNone THEN PyNone ELSE PyStr("<config>"))

\* the end of a submit call: what was built, the one call made on super()
\* and the state that call left
Submitted(wid, command, logsdir, config, newcommand, target, r) ==
    /\ attrs' = r.attrs
    /\ asg' = r.asg
    /\ base' = r.base
    /\ last' = [op |-> "submit", wid |-> wid, command |-> command,
                logsdir |-> logsdir, config |-> config,
                newcommand |-> newcommand,
                calls |-> <<[target |-> target, command |-> newcommand,
                             capture_output |-> TRUE, raised |-> r.err]>>,
                err |-> r.err]
    /\ UNCHANGED <<cls, phase>>

PawseyDisconnectedTemplate_submit_detatched_resume ==
    /\ phase = "ready" /\ cls = "PawseyDisconnectedTemplate"
    /\ \E a \in CallArgs, config \in Configs :
         LET newcommand ==
                 PawseyDisconnectedTemplate_newcommand(attrs, a.wid, a.command, a.logsdir)
         IN Submitted(a.wid, a.command, a.logsdir, config, newcommand,
                      "PawseyTemplate.__init__",
                      PawseyTemplate_init(Self, ResumeKw(a.wid, newcommand, config)))

PeterMacTemplate_submit_detatched_resume ==
    /\ phase = "ready" /\ cls = "PeterMacTemplate"
    /\ \E a \in CallArgs, config \in Configs,
          outcome \in BaseOutcomes :
         LET newcommand ==
                 PeterMacTemplate_newcommand(attrs, a.wid, a.command, a.logsdir, config)
         IN Submitted(a.wid, a.command, a.logsdir, config, newcommand,
                      "SlurmSingularityTemplate.submit_detatched_resume",
                      Raise(Self, outcome))

PeterMacDisconnectedTemplate_submit_detatched_resume ==
    /\ phase = "ready" /\ cls = "PeterMacDisconnectedTemplate"
    /\ \E a \in CallArgs, config \in Configs,
          order \in EmailFormatOrders :
         LET newcommand ==
                 PeterMacDisconnectedTemplate_newcommand(attrs, a.wid, a.command, a.logsdir)
         IN Submitted(a.wid, a.command, a.logsdir, config, newcommand,
                      "PeterMacTemplate.__init__",
                      PeterMacTemplate_init(Self, ResumeKw(a.wid, newcommand, config), order))

-----------------------------------------------------------------------------
(* TaskStatus, RunModel, SubmissionModel (external data model)             *)

Statuses == {"running", "completed", "failed"}

is_in_final_state(status) == status \in {"completed", "failed"}

\* str(status)
TaskStatus_str(status) ==
    CASE status = "running" -> "Running"
      [] status = "completed" -> "Completed"
      [] status = "failed" -> "Failed"

to_hexcolor(status) ==
    CASE status = "running" -> "#CCCC00"
      [] status = "completed" -> "#5EB95E"
      [] status = "failed" -> "#DD514C"

Jobs == {[name |-> "align", status |-> "completed"],
         [name |-> "call", status |-> "failed"]}

RunInputs == {[tag |-> "seqrun", value |-> PyStr("run1")],
              [tag |-> "seqrun", value |-> PyList(<<"r1", "r2">>)],
              [tag |-> "seqrun", value |-> PyList(<<>>)],
              [tag |-> "fastq", value |-> PyStr("a.fq")]}

Runs == {[inputs |-> i, jobs |-> j] :
            i \in SeqsUpTo(RunInputs, MaxInputs), j \in SeqsUpTo(Jobs, MaxJobs)}

Metadatas ==
    {[id_ |-> "abc123", runs |-> r, execution_dir |-> "/exec", output_dir |-> "/out"] :
        r \in {<<"align", "call">>, <<"align", "align">>}}

-----------------------------------------------------------------------------
(* Status email renderer                                                   *)

\* table_style_gen(**kwargs): the style attribute, as its key/value pairs
table_style_gen(kwargs) ==
    kwargs \o <<<<"border", "1px solid black">>, <<"padding", "8px">>>>

\* inputs = {i.tag: i.value for i in run.inputs}: a later entry replaces an
\* earlier one with the same tag
RECURSIVE InputsDict(_)
InputsDict(inputs) ==
    IF inputs = <<>> THEN [t \in {} |-> PyNone]
    ELSE LET n == Len(inputs)
         IN (inputs[n].tag :> inputs[n].value) @@ InputsDict(SubSeq(inputs, 1, n - 1))

\* one <tr> of the job table
JobRow(job) ==
    [cells |-> <<job.name, TaskStatus_str(job.status)>>,
     style |-> table_style_gen(<<<<"color", to_hexcolor(job.status)>>>>)]

\* one <tr> of the sequencing-run table
SeqrunRow(s, status) ==
    [cells |-> <<s, TaskStatus_str(status)>>, style |-> table_style_gen(<<>>)]

\* mutant: the job table rendered whatever the status
JobTable_unconditional(status, run) ==
    <<[kind |-> "table", head |-> <<"#Sample", "Janis">>,
       rows |-> [i \in DOMAIN run.jobs |-> JobRow(run.jobs[i])]]>>

\* the job-status table, appended when status.is_in_final_state()
JobTable(status, run) ==
    IF is_in_final_state(status)
    THEN <<[kind |-> "table", head |-> <<"#Sample", "Janis">>,
            rows |-> [i \in DOMAIN run.jobs |-> JobRow(run.jobs[i])]]>>
    ELSE <<>>

\* the per-sequencing-run table, appended when "seqrun" in inputs
SeqrunTable(status, run) ==
    LET inputs == InputsDict(run.inputs)
    IN IF "seqrun" \in DOMAIN inputs
       THEN LET seqrun == inputs["seqrun"]
                iterseqrun == IF ~IsList(seqrun) THEN <<Str(seqrun)>> ELSE seqrun.items
            IN <<[kind |-> "table", head |-> <<"#Run", "Janis">>,
                  rows |-> [i \in DOMAIN iterseqrun |-> SeqrunRow(iterseqrun[i], status)]]>>
       ELSE <<>>

\* the header, inserted when len(components) > 0
WithHeader(components) ==
    IF Len(components) > 0
    THEN <<[kind |-> "h3", head |-> <<"Run status">>, rows |-> <<>>]>> \o components
    ELSE components

\* the returned text, as the sequence of the components joined with "\n";
\* the empty string is the empty sequence
prepare_run_status_table(status, run) ==
    WithHeader(JobTable(status, run) \o SeqrunTable(status, run))

\* the molpath email body, as the values that fill the template; `names` is
\* the order in which set(r.name for r in metadata.runs) is iterated
prepare_molpath_status_update_email(status, metadata, names) ==
    [kind |-> "molpath",
     wid |-> metadata.id_,
     wfname |-> Join(", ", names),
     status |-> TaskStatus_str(status),
     exdir |-> metadata.execution_dir,
     tdir |-> metadata.output_dir,
     progress_and_header |-> is_in_final_state(status),
     run_status |-> ""]

\* the base class's default email (external)
SlurmSingularityTemplate_prepare_status_update_email(status, metadata) ==
    [kind |-> "default", wid |-> metadata.id_, status |-> TaskStatus_str(status)]

\* static: called on the class with the (status, run) given, no instance
\* is involved
PeterMacTemplate_prepare_run_status_table ==
    /\ phase = "static"
    /\ last.op = "args"
    /\ last' = [op |-> "table", status |-> last.status, run |-> last.run,
                ret |-> prepare_run_status_table(last.status, last.run)]
    /\ UNCHANGED <<cls, phase, attrs, asg, base>>

PeterMacTemplate_prepare_status_update_email ==
    /\ phase = "ready"
    /\ cls \in {"PeterMacTemplate", "PeterMacDisconnectedTemplate"}
    /\ \E status \in Statuses, metadata \in Metadatas :
         \E names \in Orders({metadata.runs[i] : i \in DOMAIN metadata.runs}) :
           last' = [op |-> "email", status |-> status, metadata |-> metadata,
                    ret |-> IF attrs.email_format = PyStr("molpath")
                            THEN prepare_molpath_status_update_email(status, metadata, names)
                            ELSE SlurmSingularityTemplate_prepare_status_update_email(
                                     status, metadata)]
    /\ UNCHANGED <<cls, phase, attrs, asg, base>>

PeterMacTemplate_prepare_molpath_status_update_email ==
    /\ phase = "ready"
    /\ cls \in {"PeterMacTemplate", "PeterMacDisconnectedTemplate"}
    /\ \E status \in Statuses, metadata \in Metadatas :
         \E names \in Orders({metadata.runs[i] : i \in DOMAIN metadata.runs}) :
           last' = [op |-> "molpath", status |-> status, metadata |-> metadata,
                    ret |-> prepare_molpath_status_update_email(status, metadata, names)]
    /\ UNCHANGED <<cls, phase, attrs, asg, base>>

-----------------------------------------------------------------------------
(* Specification                                                           *)

\* no instance exists yet
InitFresh ==
    /\ cls = "none"
    /\ phase = "absent"
    /\ attrs = NoAttrs
    /\ asg = NoAsg
    /\ base = NoBase
    /\ last = [op |-> "none"]

\* an instance of a disconnected template as a method receives it: the
\* attributes are those the class's constructor chain assigns (the
\* constructors themselves raise, see New_PawseyDisconnectedTemplate and
\* New_PeterMacDisconnectedTemplate, so such an instance is an input here)
InitReceiver ==
    /\ phase = "ready"
    /\ asg = NoAsg
    /\ base = NoBase
    /\ last = [op |-> "given"]
    /\ \/ /\ cls = "PawseyDisconnectedTemplate"
          /\ \E q \in Queues, sq \in SubmissionQueues, send \in Flags :
               attrs = [NoAttrs EXCEPT !.queues = q, !.submission_queue = sq,
                                       !.send_job_emails = send]
       \/ /\ cls = "PeterMacDisconnectedTemplate"
          /\ \E q \in Queues, send \in Flags, mwt \in WorkflowTimes :
               attrs = [NoAttrs EXCEPT !.queues = PyStr(JoinedQueued(q)),
                                       !.send_job_emails = send,
                                       !.max_workflow_time = mwt,
                                       !.janis_memory_mb = PyNone,
                                       !.email_format = PyNone]

\* a call of the static renderer: its arguments
InitTable ==
    /\ cls = "PeterMacTemplate"
    /\ phase = "static"
    /\ attrs = NoAttrs
    /\ asg = NoAsg
    /\ base = NoBase
    /\ \E status \in Statuses, run \in Runs :
         last = [op |-> "args", status |-> status, run |-> run]

Init == InitFresh \/ InitReceiver \/ InitTable

Next ==
    \/ New_PawseyTemplate
    \/ New_PawseyDisconnectedTemplate
    \/ New_PeterMacTemplate
    \/ New_PeterMacDisconnectedTemplate
    \/ PawseyDisconnectedTemplate_submit_detatched_resume
    \/ PeterMacTemplate_submit_detatched_resume
    \/ PeterMacDisconnectedTemplate_submit_detatched_resume
    \/ PeterMacTemplate_prepare_run_status_table
    \/ PeterMacTemplate_prepare_status_update_email
    \/ PeterMacTemplate_prepare_molpath_status_update_email

Spec == Init /\ [][Next]_vars

-----------------------------------------------------------------------------
(* Properties                                                              *)

DisconnectedClasses == {"PawseyDisconnectedTemplate", "PeterMacDisconnectedTemplate"}

PeterMacClasses == {"PeterMacTemplate", "PeterMacDisconnectedTemplate"}

\* the optional blocks that may stand between the -e path and --wrap
IsMailBlock(b) ==
    Len(b) = 4 /\ b[1] = "--mail-user" /\ b[3] = "--mail-type" /\ b[4] = "END"

IsMemBlock(b) == Len(b) = 2 /\ b[1] = "--mem"

OptionalBlocks(m) ==
    \/ m = <<>>
    \/ IsMailBlock(m)
    \/ IsMemBlock(m)
    \/ Len(m) = 6 /\ IsMailBlock(SubSeq(m, 1, 4)) /\ IsMemBlock(SubSeq(m, 5, 6))

Contains(v, x) == \E i \in DOMAIN v : v[i] = x

\* the command as one element: its tokens joined with single spaces
WrapPayload(command) ==
    IF command.kind = "list" THEN Join(" ", command.items) ELSE command.s

C3_EmailFormatChecked ==
    (cls = "PeterMacTemplate" /\ phase \in {"ready", "failed"}) =>
      /\ phase = "failed" =>
           /\ attrs.email_format = Unset
           /\ base.inits = 0
           /\ last.op = "init"
      /\ last.op = "init" =>
           LET ef == last.kw["email_format"]
           IN IF ef \in {PyNone, PyStr("molpath")}
              THEN /\ phase = "ready" /\ last.err = NoError
                   /\ attrs.email_format = ef
                   /\ base.inits = 1
              ELSE /\ phase = "failed"
                   /\ last.err.type = "Exception"
                   /\ Len(last.err.msg) = 5
                   /\ last.err.msg[2] = Str(ef)
                   /\ last.err.msg[4] \in {"'None', 'molpath'", "'molpath', 'None'"}

\* a PeterMacTemplate construction rejected for email_format "html"
C3_Witness ==
    /\ cls = "PeterMacTemplate" /\ phase = "failed"
    /\ last.op = "init" /\ last.kw["email_format"] = PyStr("html")
    /\ last.err.type = "Exception"

\* the configured queue as the claim resolves it: joined with ", " if a list
ConfiguredQueue(q) == IF q.kind = "list" THEN Join(", ", q.items) ELSE q.s

\* C4: in every variant the queue after -p is the submission-queue override
\* when one is present, otherwise the configured queue (joined with ", " if
\* it is a list).
C4_QueueResolution ==
    last.op = "submit" =>
      last.newcommand[3] =
        IF Truthy(attrs.submission_queue) THEN attrs.submission_queue.s
        ELSE ConfiguredQueue(attrs.queues)

\* the mail block for notification email e stands in v
HasMailBlock(v, e) ==
    \E i \in 1..(Len(v) - 3) : SubSeq(v, i, i + 3) = <<"--mail-user", e, "--mail-type", "END">>

C6_MemBlock ==
    last.op = "submit" =>
      LET v == last.newcommand
          mem == attrs.janis_memory_mb
      IN IF mem.kind = "int"
         THEN \E i \in 1..(Len(v) - 1) : v[i] = "--mem" /\ v[i + 1] = ToString(mem.n)
         ELSE ~Contains(v, "--mem")

SeqrunValue(run) ==
    LET i == CHOOSE k \in DOMAIN run.inputs :
                 /\ run.inputs[k].tag = "seqrun"
                 /\ \A j \in DOMAIN run.inputs : j > k => run.inputs[j].tag # "seqrun"
    IN run.inputs[i].value

HasSeqrun(run) == \E k \in DOMAIN run.inputs : run.inputs[k].tag = "seqrun"

\* the values one row each is rendered for
SeqrunValues(run) ==
    LET x == SeqrunValue(run) IN IF x.kind = "list" THEN x.items ELSE <<x.s>>

IsJobTable(t, run) ==
    /\ t.kind = "table" /\ t.head = <<"#Sample", "Janis">>
    /\ Len(t.rows) = Len(run.jobs)
    /\ \A i \in DOMAIN run.jobs :
         t.rows[i].cells = <<run.jobs[i].name, TaskStatus_str(run.jobs[i].status)>>

IsSeqrunTable(t, status, run) ==
    /\ t.kind = "table" /\ t.head = <<"#Run", "Janis">>
    /\ Len(t.rows) = Len(SeqrunValues(run))
    /\ \A i \in DOMAIN t.rows :
         t.rows[i].cells = <<SeqrunValues(run)[i], TaskStatus_str(status)>>

\* C8: prepare_run_status_table returns the empty string exactly when the
\* status is not final and the inputs have no seqrun entry; otherwise the
\* header, then the job table (iff the status is final, one row per job with
\* its name and status string), then the sequencing-run table (iff seqrun is
\* among the inputs, one row per seqrun value).
C8_RunStatusTable ==
    last.op = "table" =>
      LET final == last.status \in {"completed", "failed"}
          seq == HasSeqrun(last.run)
          ret == last.ret
      IN /\ (ret = <<>>) <=> (~final /\ ~seq)
         /\ ret # <<>> =>
              /\ ret[1].kind = "h3"
              /\ Len(ret) = 1 + (IF final THEN 1 ELSE 0) + (IF seq THEN 1 ELSE 0)
              /\ final => IsJobTable(ret[2], last.run)
              /\ seq => IsSeqrunTable(ret[Len(ret)], last.status, last.run)

\* a final status, two jobs and a seqrun list of two values: header and both
\* tables
C8_Witness ==
    /\ last.op = "table" /\ Len(last.ret) = 3
    /\ Len(last.run.jobs) = 2
    /\ Len(last.ret[3].rows) = 2

ExpectedSingload(version) ==
    IF version = PyNone THEN "module load singularity"
    ELSE "module load singularity/" \o version.s

\* the module-load instruction that reached the base class
ForwardedSingload ==
    Arg(base.kw, "singularity_load_instructions",
        Arg(base.kw, "singularityLoadInstructions", PyNone))

\* C10: for every template and every version given to its constructor, the
\* base class receives "module load singularity/<version>", or "module load
\* singularity" when the version is None.
C10_Singload ==
    (last.op = "init" /\ last.err.type # "Exception") =>
      /\ base.inits = 1
      /\ ForwardedSingload =
           PyStr(ExpectedSingload(Arg(last.kw, "singularityVersion",
                                      Arg(last.kw, "singularity_version", PyNone))))

====
